---- MODULE Spec2Model ----
(***************************************************************************)
(* A model of the Connect Four websocket server of src/app.py.             *)
(*                                                                         *)
(* One asyncio task runs per accepted connection.  The event loop is       *)
(* single threaded and cooperative: a task runs without interruption from  *)
(* one suspension point (an await that really waits) to the next, so each  *)
(* action below is the code between two suspension points.  A              *)
(* websocket.send writes its frame at once and may then wait for the       *)
(* transport to drain; websockets.broadcast and send_email never suspend.  *)
(*                                                                         *)
(* The handler of lines 199-217 calls start, join and watch without their  *)
(* email parameter; the action Handler models that call as it is written,  *)
(* and SpecServer is the server as websockets.serve runs it.  The actions  *)
(* Start, Join and Watch model the three coroutines entered with the       *)
(* parameters their signatures declare, and Spec is the behaviour of the   *)
(* coroutines so entered.                                                  *)
(***************************************************************************)
EXTENDS Integers, Sequences, FiniteSets, TLC

\* ---------------------------------------------------------------- bounds
NConn == 3          \* connections the server accepts
Cols == 2           \* columns of the board
Rows == 2           \* rows of the board
WinLen == 2         \* aligned discs that win
MaxErrors == 1      \* rejected moves answered in all

\* ------------------------------------------------------------- constants
PLAYER1 == 1
PLAYER2 == 2

None == 0
Conns == 1..NConn
\* secrets.token_urlsafe(12): every start() draws two tokens.  Two draws
\* never collide (96 random bits), so the tokens are modelled as fresh
\* values; which fresh value is drawn is immaterial (tokens are only
\* compared for equality), and the least one not yet issued is taken.
\* The last token of the set is never issued: a client can present it.
Tokens == 1..(2 * NConn + 1)
Columns == 0..(Cols - 1)
\* A play message may name a column outside the board.
InColumns == 0..Cols

VARIABLES
    pc,          \* where each connection's task is
    open,        \* whether the connection is open at the transport
    hmsg,        \* handler: the first message it parsed (line 206)
    fn,          \* the coroutine the task runs: start, join or watch
    join_key,    \* start: the join token it drew; join: the token presented
    watch_key,   \* start: the watch token it drew; watch: the token presented
    sess,        \* the (game, connected) pair the coroutine holds
    snap,        \* replay: the copy of game.moves it iterates over
    pos,         \* replay: how many moves of the copy it has sent
    JOIN,        \* the dict JOIN: token -> session, None for a missing key
    WATCH,       \* the dict WATCH: token -> session, None for a missing key
    issued,      \* the tokens drawn so far
    game,        \* session -> the Connect4 object
    connected,   \* session -> the set of websockets
    log          \* connection -> the events sent to it, in order

vars == <<pc, open, hmsg, fn, join_key, watch_key, sess, snap, pos,
          JOIN, WATCH, issued, game, connected, log>>

\* ----------------------------------------------------------------- events
InitEvent(jk, wk) == [type |-> "init", join |-> jk, watch |-> wk]
PlayEvent(m) == [type |-> "play", player |-> m[1], column |-> m[2], row |-> m[3]]
WinEvent(p) == [type |-> "win", player |-> p]
ErrorEvent(msg) == [type |-> "error", message |-> msg]
GameNotFound == ErrorEvent("Game not found.")

RECURSIVE PlayEvents(_)
PlayEvents(ms) ==
    IF ms = <<>> THEN <<>> ELSE <<PlayEvent(Head(ms))>> \o PlayEvents(Tail(ms))

\* ------------------------------------------------------- the game engine
\* connect4.Connect4 is imported (line 14) and is not part of src/: it is
\* modelled from the specification's interface, apply_move and winner.
Connect4 == [moves |-> <<>>, winner |-> None]

Turn(moves) == IF Len(moves) % 2 = 0 THEN PLAYER1 ELSE PLAYER2

Top(moves, column) == Cardinality({i \in DOMAIN moves : moves[i][2] = column})

Discs(moves, player) ==
    {<<moves[i][2], moves[i][3]>> : i \in {j \in DOMAIN moves : moves[j][1] = player}}

Directions == {<<1, 0>>, <<0, 1>>, <<1, 1>>, <<1, -1>>}

\* The disc at (column, row) closes a line of WinLen discs of the player.
LastPlayerWon(moves, player, column, row) ==
    \E d \in Directions : \E k \in 0..(WinLen - 1) :
        \A i \in 0..(WinLen - 1) :
            <<column + (i - k) * d[1], row + (i - k) * d[2]>> \in Discs(moves, player)

\* The reason game.play raises RuntimeError, or "" when the move is legal.
MoveError(g, player, column) ==
    IF g.winner # None THEN "The game is over."
    ELSE IF player # Turn(g.moves) THEN "It isn't your turn."
    ELSE IF column \notin Columns THEN "Invalid column."
    ELSE IF Top(g.moves, column) >= Rows THEN "This slot is full."
    ELSE ""

\* game.play(player, column) on a legal move: the game afterwards.
GamePlay(g, player, column) ==
    LET row == Top(g.moves, column)
        ms == Append(g.moves, <<player, column, row>>)
    IN [moves |-> ms,
        winner |-> IF LastPlayerWon(ms, player, column, row) THEN player ELSE None]

\* ------------------------------------------------------------------ state
Init ==
    /\ pc = [c \in Conns |-> "accepted"]
    /\ open = [c \in Conns |-> TRUE]
    /\ hmsg = [c \in Conns |-> "none"]
    /\ fn = [c \in Conns |-> "none"]
    /\ join_key = [c \in Conns |-> None]
    /\ watch_key = [c \in Conns |-> None]
    /\ sess = [c \in Conns |-> None]
    /\ snap = [c \in Conns |-> <<>>]
    /\ pos = [c \in Conns |-> 0]
    /\ JOIN = [t \in Tokens |-> None]
    /\ WATCH = [t \in Tokens |-> None]
    /\ issued = {}
    /\ game = [s \in Conns |-> Connect4]
    /\ connected = [s \in Conns |-> {}]
    /\ log = [c \in Conns |-> <<>>]

\* ---------------------------------------------------------------- helpers
\* secrets.token_urlsafe: a token never drawn before.
TokenUrlsafe(drawn) ==
    CHOOSE t \in Tokens \ drawn : \A u \in Tokens \ drawn : t <= u

\* websocket.send(event) on connection c: the frame is written at once.
Send(lg, c, ev) == [lg EXCEPT ![c] = Append(@, ev)]

\* A broadcast that reaches one connection of the set only.
Broadcast_OneRecipient(lg, conns, ev) ==
    [d \in Conns |-> IF d \in conns /\ open[d] /\ (\A e \in conns : d <= e)
                     THEN Append(lg[d], ev) ELSE lg[d]]

\* A broadcast written to every open connection of the server, whatever
\* its session.
Broadcast_AllSessions(lg, conns, ev) ==
    [d \in Conns |-> IF open[d] /\ pc[d] \in {"replay", "play", "wait_closed"}
                     THEN Append(lg[d], ev) ELSE lg[d]]

\* A broadcast that leaves out the connections replay is still sending to.
Broadcast_SkipsReplaying(lg, conns, ev) ==
    [d \in Conns |-> IF d \in conns /\ open[d] /\ pc[d] # "replay"
                     THEN Append(lg[d], ev) ELSE lg[d]]

\* websockets.broadcast(conns, event): written to every connection of the
\* set that is open; the others are skipped.  It never suspends.
Broadcast(lg, conns, ev) ==
    [d \in Conns |-> IF d \in conns /\ open[d] THEN Append(lg[d], ev) ELSE lg[d]]

\* The win event broadcast before the play event of the winning move.
BroadcastMove_WinFirst(lg, conns, g) ==
    LET won == IF g.winner # None THEN Broadcast(lg, conns, WinEvent(g.winner))
               ELSE lg
    IN Broadcast(won, conns, PlayEvent(g.moves[Len(g.moves)]))

\* play(), lines 79-94: the broadcasts of an accepted move.
BroadcastMove(lg, conns, g) ==
    LET played == Broadcast(lg, conns, PlayEvent(g.moves[Len(g.moves)]))
    IN IF g.winner # None THEN Broadcast(played, conns, WinEvent(g.winner))
       ELSE played

RECURSIVE Reverse(_)
Reverse(q) == IF q = <<>> THEN <<>> ELSE Append(Reverse(Tail(q)), Head(q))

\* A replay that iterates over the moves from the last to the first.
ReplayCopy_Reversed(g) == Reverse(PlayEvents(g.moves))

\* replay(), line 50: the copy of game.moves, as the events to send.
ReplayCopy(g) == PlayEvents(g.moves)

\* del D[key]
Del(D, key) == [D EXCEPT ![key] = None]

\* player argument of play(): line 127 for start, line 151 for join.
PlayerOf(c) == IF fn[c] = "start" THEN PLAYER1 ELSE PLAYER2

RECURSIVE Count(_, _)
Count(evs, type) ==
    IF evs = <<>> THEN 0
    ELSE (IF Head(evs).type = type THEN 1 ELSE 0) + Count(Tail(evs), type)

RECURSIVE SumOver(_, _)
SumOver(f, S) ==
    IF S = {} THEN 0
    ELSE LET x == CHOOSE y \in S : TRUE IN f[x] + SumOver(f, S \ {x})

\* Rejected moves answered so far, by the "Game not found." errors apart.
NRejected ==
    SumOver([c \in Conns |-> Count(log[c], "error")
                              - (IF GameNotFound \in {log[c][i] : i \in DOMAIN log[c]}
                                 THEN 1 ELSE 0)], Conns)

\* Connections are numbered in the order in which their coroutines are
\* entered.
Entered(c) == pc[c] # "accepted"
InOrder(c) == \A d \in Conns : d < c => Entered(d)

\* The tokens a client can present: one a host has been sent, or one
\* that was never issued.
Bogus == 2 * NConn + 1
Presentable == issued \cup {Bogus}

\* A start whose finally clause deletes the join token only.
Finally_KeepsWatch(c) ==
    /\ pc' = [pc EXCEPT ![c] = "done"]
    /\ open' = [open EXCEPT ![c] = FALSE]
    /\ snap' = [snap EXCEPT ![c] = <<>>]
    /\ pos' = [pos EXCEPT ![c] = 0]
    /\ IF fn[c] = "start"
       THEN /\ JOIN' = Del(JOIN, join_key[c])
            /\ UNCHANGED <<WATCH, connected>>
       ELSE /\ connected' = [connected EXCEPT ![sess[c]] = @ \ {c}]
            /\ UNCHANGED <<JOIN, WATCH>>

\* A start whose finally clause deletes the watch token only.
Finally_KeepsJoin(c) ==
    /\ pc' = [pc EXCEPT ![c] = "done"]
    /\ open' = [open EXCEPT ![c] = FALSE]
    /\ snap' = [snap EXCEPT ![c] = <<>>]
    /\ pos' = [pos EXCEPT ![c] = 0]
    /\ IF fn[c] = "start"
       THEN /\ WATCH' = Del(WATCH, watch_key[c])
            /\ UNCHANGED <<JOIN, connected>>
       ELSE /\ connected' = [connected EXCEPT ![sess[c]] = @ \ {c}]
            /\ UNCHANGED <<JOIN, WATCH>>

\* A join or watch whose finally clause empties the set.
Finally_ClearsSet(c) ==
    /\ pc' = [pc EXCEPT ![c] = "done"]
    /\ open' = [open EXCEPT ![c] = FALSE]
    /\ snap' = [snap EXCEPT ![c] = <<>>]
    /\ pos' = [pos EXCEPT ![c] = 0]
    /\ IF fn[c] = "start"
       THEN /\ JOIN' = Del(JOIN, join_key[c])
            /\ WATCH' = Del(WATCH, watch_key[c])
            /\ UNCHANGED connected
       ELSE /\ connected' = [connected EXCEPT ![sess[c]] = {}]
            /\ UNCHANGED <<JOIN, WATCH>>

\* The finally clauses: start (lines 128-130) deletes its two tokens; join
\* (lines 155-156) and watch (lines 181-182) remove the websocket from the
\* set.  The task ends, its frame (the copy replay iterates over) is gone,
\* and the server closes the connection of a handler that has ended.
Finally(c) ==
    /\ pc' = [pc EXCEPT ![c] = "done"]
    /\ open' = [open EXCEPT ![c] = FALSE]
    /\ snap' = [snap EXCEPT ![c] = <<>>]
    /\ pos' = [pos EXCEPT ![c] = 0]
    /\ IF fn[c] = "start"
       THEN /\ JOIN' = Del(JOIN, join_key[c])
            /\ WATCH' = Del(WATCH, watch_key[c])
            /\ UNCHANGED connected
       ELSE /\ connected' = [connected EXCEPT ![sess[c]] = @ \ {c}]
            /\ UNCHANGED <<JOIN, WATCH>>

\* send_email (lines 186-196) has no await: it runs to its end, and it
\* returns, or an SMTP or socket error (an OSError) leaves it as an
\* exception.
EmailOutcomes == {"sent", "OSError"}

\* ---------------------------------------------------------------- handler
InitMessages == {"init", "init_join", "init_watch", "other"}

\* handler(), lines 199-217: receive the first message and dispatch.  The
\* calls start(websocket), join(websocket, key), watch(websocket, key)
\* lack the email argument of the three signatures, so each raises
\* TypeError before the coroutine's body runs; a first message that is
\* not an init fails the assert of line 207, and recv raises
\* ConnectionClosed on a connection closed before its first message.
\* Whichever it is, the handler ends there.
Handler(c, ev) ==
    /\ pc[c] = "accepted"
    /\ pc' = [pc EXCEPT ![c] = "done"]
    /\ open' = [open EXCEPT ![c] = FALSE]
    /\ hmsg' = [hmsg EXCEPT ![c] = IF open[c] THEN ev ELSE "closed"]
    /\ UNCHANGED <<fn, join_key, watch_key, sess, snap, pos, JOIN, WATCH, issued,
                   game, connected, log>>

\* ------------------------------------------------------------------ start
\* start(websocket, email), lines 104-121: create the game and the set,
\* draw and register the two tokens, write the init event.
Start(c) ==
    LET jk == TokenUrlsafe(issued)
        wk == TokenUrlsafe(issued \cup {jk})
    IN
    /\ pc[c] = "accepted"
    /\ InOrder(c)
    /\ fn' = [fn EXCEPT ![c] = "start"]
    /\ sess' = [sess EXCEPT ![c] = c]
    /\ join_key' = [join_key EXCEPT ![c] = jk]
    /\ watch_key' = [watch_key EXCEPT ![c] = wk]
    /\ issued' = issued \cup {jk, wk}
    /\ game' = [game EXCEPT ![c] = Connect4]
    /\ connected' = [connected EXCEPT ![c] = {c}]
    /\ IF open[c]
       THEN /\ JOIN' = [JOIN EXCEPT ![jk] = c]
            /\ WATCH' = [WATCH EXCEPT ![wk] = c]
            /\ log' = Send(log, c, InitEvent(jk, wk))
            /\ pc' = [pc EXCEPT ![c] = "start_send"]
            /\ UNCHANGED open
       ELSE \* send raises ConnectionClosed: the finally clause deletes the
            \* two tokens in the same step.
            /\ pc' = [pc EXCEPT ![c] = "done"]
            /\ UNCHANGED <<JOIN, WATCH, log, open>>
    /\ UNCHANGED <<hmsg, snap, pos>>

\* start(), lines 121-127: the send returns, send_email runs, and play()
\* waits for the first message.
StartResume(c, email) ==
    /\ pc[c] = "start_send"
    /\ IF ~open[c] \/ email # "sent"
       THEN Finally(c)
       ELSE /\ pc' = [pc EXCEPT ![c] = "play"]
            /\ UNCHANGED <<open, snap, pos, JOIN, WATCH, connected>>
    /\ UNCHANGED <<hmsg, fn, join_key, watch_key, sess, issued, game, log>>

\* ----------------------------------------------------------- join, watch
\* A watch that goes on to read messages in play() once replay is over.
AfterReplay_WatcherPlays(f) == "play"

\* The state the coroutine waits in once replay has sent everything.
AfterReplay(f) == IF f = "join" THEN "play" ELSE "wait_closed"

\* join() lines 138-149 and watch() lines 164-175, D the dict looked up:
\* on a missing key the error is sent and the coroutine returns; on a hit
\* the websocket is added to the set and replay copies the moves and
\* writes the first of them.
Enter(c, f, D, key) ==
    /\ pc[c] = "accepted"
    /\ InOrder(c)
    /\ fn' = [fn EXCEPT ![c] = f]
    /\ IF D[key] = None
       THEN /\ log' = IF open[c] THEN Send(log, c, GameNotFound) ELSE log
            /\ pc' = [pc EXCEPT ![c] = "done"]
            /\ open' = [open EXCEPT ![c] = FALSE]
            /\ UNCHANGED <<sess, snap, pos, connected>>
       ELSE LET s == D[key]
                events == ReplayCopy(game[s])
            IN /\ sess' = [sess EXCEPT ![c] = s]
               /\ IF events = <<>>
                  THEN /\ connected' = [connected EXCEPT ![s] = @ \cup {c}]
                       /\ pc' = [pc EXCEPT ![c] = AfterReplay(f)]
                       /\ UNCHANGED <<log, snap, pos, open>>
                  ELSE IF open[c]
                  THEN /\ connected' = [connected EXCEPT ![s] = @ \cup {c}]
                       /\ log' = Send(log, c, events[1])
                       /\ snap' = [snap EXCEPT ![c] = events]
                       /\ pos' = [pos EXCEPT ![c] = 1]
                       /\ pc' = [pc EXCEPT ![c] = "replay"]
                       /\ UNCHANGED open
                  ELSE \* the first send raises: added and removed at once
                       /\ pc' = [pc EXCEPT ![c] = "done"]
                       /\ UNCHANGED <<connected, log, snap, pos, open>>
    /\ UNCHANGED <<hmsg, JOIN, WATCH, issued, game>>

\* A join that finds no game while the host has not yet entered its loop.
Join_MissesBeforeLoop(c, key) ==
    /\ Enter(c, "join", [t \in Tokens |-> IF JOIN[t] # None /\ pc[JOIN[t]] = "start_send"
                                          THEN None ELSE JOIN[t]], key)
    /\ join_key' = [join_key EXCEPT ![c] = key]
    /\ UNCHANGED watch_key

\* A join whose token is used up by the first connection that joined
\* with it.
Join_SingleUse(c, key) ==
    /\ Enter(c, "join",
             [t \in Tokens |-> IF \E d \in Conns : /\ fn[d] = "join"
                                                   /\ join_key[d] = t
                                                   /\ sess[d] # None
                               THEN None ELSE JOIN[t]], key)
    /\ join_key' = [join_key EXCEPT ![c] = key]
    /\ UNCHANGED watch_key

\* A join that looks its key up in WATCH.
Join_LooksUpWatch(c, key) ==
    /\ Enter(c, "join", WATCH, key)
    /\ join_key' = [join_key EXCEPT ![c] = key]
    /\ UNCHANGED watch_key

Join(c, key) ==
    /\ Enter(c, "join", JOIN, key)
    /\ join_key' = [join_key EXCEPT ![c] = key]
    /\ UNCHANGED watch_key

Watch(c, key) ==
    /\ Enter(c, "watch", WATCH, key)
    /\ watch_key' = [watch_key EXCEPT ![c] = key]
    /\ UNCHANGED join_key

\* A replay that iterates over game.moves itself instead of a copy: a
\* move appended while it runs is sent by it as well.
ReplayResume_LiveList(c) ==
    LET live == PlayEvents(game[sess[c]].moves)
    IN
    /\ pc[c] = "replay"
    /\ IF ~open[c] THEN /\ Finally(c)
                        /\ UNCHANGED log
       ELSE /\ UNCHANGED <<open, JOIN, WATCH, connected>>
            /\ IF pos[c] < Len(live)
               THEN /\ log' = Send(log, c, live[pos[c] + 1])
                    /\ pos' = [pos EXCEPT ![c] = @ + 1]
                    /\ snap' = [snap EXCEPT ![c] = live]
                    /\ UNCHANGED pc
               ELSE /\ pc' = [pc EXCEPT ![c] = AfterReplay(fn[c])]
                    /\ snap' = [snap EXCEPT ![c] = <<>>]
                    /\ pos' = [pos EXCEPT ![c] = 0]
                    /\ UNCHANGED log
    /\ UNCHANGED <<hmsg, fn, join_key, watch_key, sess, issued, game>>

\* replay(), lines 50-57: a send returns; the next move of the copy is
\* written, or the loop is over and the coroutine goes on to play()
\* (line 151) or to wait_closed() (line 177).
ReplayResume(c) ==
    /\ pc[c] = "replay"
    /\ IF ~open[c] THEN /\ Finally(c)
                        /\ UNCHANGED log
       ELSE /\ UNCHANGED <<open, JOIN, WATCH, connected>>
            /\ IF pos[c] < Len(snap[c])
               THEN /\ log' = Send(log, c, snap[c][pos[c] + 1])
                    /\ pos' = [pos EXCEPT ![c] = @ + 1]
                    /\ UNCHANGED <<pc, snap>>
               ELSE /\ pc' = [pc EXCEPT ![c] = AfterReplay(fn[c])]
                    /\ snap' = [snap EXCEPT ![c] = <<>>]
                    /\ pos' = [pos EXCEPT ![c] = 0]
                    /\ UNCHANGED log
    /\ UNCHANGED <<hmsg, fn, join_key, watch_key, sess, issued, game>>

\* ------------------------------------------------------------------- play
\* An accepted move whose broadcast is left for a later step: the move is
\* appended to the history and the task suspends before the broadcast.
PlayAccept_AppendOnly(c, column) ==
    LET s == sess[c]
        g == GamePlay(game[s], PlayerOf(c), column)
    IN
    /\ pc[c] = "play"
    /\ open[c]
    /\ MoveError(game[s], PlayerOf(c), column) = ""
    /\ game' = [game EXCEPT ![s] = g]
    /\ UNCHANGED <<pc, open, hmsg, fn, join_key, watch_key, sess, snap, pos,
                   JOIN, WATCH, issued, connected, log>>

\* play(), lines 65-94, on a play message whose move the game accepts:
\* the move is applied and broadcast, with the win event when it wins.
PlayAccept(c, column) ==
    LET s == sess[c]
        g == GamePlay(game[s], PlayerOf(c), column)
    IN
    /\ pc[c] = "play"
    /\ open[c]
    /\ MoveError(game[s], PlayerOf(c), column) = ""
    /\ game' = [game EXCEPT ![s] = g]
    /\ log' = BroadcastMove(log, connected[s], g)
    /\ UNCHANGED <<pc, open, hmsg, fn, join_key, watch_key, sess, snap, pos,
                   JOIN, WATCH, issued, connected>>

\* A rejected move whose error is broadcast to the whole set.
PlayReject_Broadcasts(c, column) ==
    LET s == sess[c]
        msg == MoveError(game[s], PlayerOf(c), column)
    IN
    /\ pc[c] = "play"
    /\ open[c]
    /\ msg # ""
    /\ NRejected < MaxErrors
    /\ log' = Broadcast(log, connected[s], ErrorEvent(msg))
    /\ UNCHANGED <<pc, open, hmsg, fn, join_key, watch_key, sess, snap, pos,
                   JOIN, WATCH, issued, game, connected>>

\* play(), lines 65-77, on a play message whose move the game rejects:
\* the error is sent to the submitter and the loop continues.
PlayReject(c, column) ==
    LET s == sess[c]
        msg == MoveError(game[s], PlayerOf(c), column)
    IN
    /\ pc[c] = "play"
    /\ open[c]
    /\ msg # ""
    /\ NRejected < MaxErrors
    /\ log' = Send(log, c, ErrorEvent(msg))
    /\ UNCHANGED <<pc, open, hmsg, fn, join_key, watch_key, sess, snap, pos,
                   JOIN, WATCH, issued, game, connected>>

\* play(), lines 67-69, on a message that is not a play event: json.loads,
\* the assert or the key lookup raises, and the finally clause runs.
PlayBadMessage(c) ==
    /\ pc[c] = "play"
    /\ open[c]
    /\ Finally(c)
    /\ UNCHANGED <<hmsg, fn, join_key, watch_key, sess, issued, game, log>>

\* play(), line 65, on a closed connection: the loop ends; join goes on
\* to send_email (line 154); whether that returns or raises, the finally
\* clause runs.
PlayClosed(c) ==
    /\ pc[c] = "play"
    /\ ~open[c]
    /\ Finally(c)
    /\ UNCHANGED <<hmsg, fn, join_key, watch_key, sess, issued, game, log>>

\* watch(), lines 177-182: wait_closed returns, send_email runs and
\* returns or raises, and the finally clause runs.
WaitClosed(c) ==
    /\ pc[c] = "wait_closed"
    /\ ~open[c]
    /\ Finally(c)
    /\ UNCHANGED <<hmsg, fn, join_key, watch_key, sess, issued, game, log>>

\* ------------------------------------------------------------ environment
\* The peer closes the connection, or the network drops it.
Close(c) ==
    /\ pc[c] # "done"
    /\ InOrder(c)
    /\ open[c]
    /\ open' = [open EXCEPT ![c] = FALSE]
    /\ UNCHANGED <<pc, hmsg, fn, join_key, watch_key, sess, snap, pos,
                   JOIN, WATCH, issued, game, connected, log>>

Suspended == {"start_send", "replay", "play", "wait_closed"}

\* The task is cancelled while it waits: CancelledError is raised at the
\* await and the finally clause runs.
Cancel(c) ==
    /\ pc[c] \in Suspended
    /\ Finally(c)
    /\ UNCHANGED <<hmsg, fn, join_key, watch_key, sess, issued, game, log>>

\* The coroutines, entered as their signatures declare.
Next ==
    \E c \in Conns :
        \/ Start(c)
        \/ \E email \in EmailOutcomes : StartResume(c, email)
        \/ \E key \in Presentable : Join(c, key)
        \/ \E key \in Presentable : Watch(c, key)
        \/ ReplayResume(c)
        \/ \E column \in InColumns : PlayAccept(c, column)
        \/ \E column \in InColumns : PlayReject(c, column)
        \/ PlayBadMessage(c)
        \/ PlayClosed(c)
        \/ WaitClosed(c)
        \/ Close(c)
        \/ Cancel(c)

Spec == Init /\ [][Next]_vars

\* The server as main() runs it (line 227): every connection is handled
\* by handler().
NextServer ==
    \E c \in Conns :
        \/ \E ev \in InitMessages : Handler(c, ev)
        \/ Close(c)

SpecServer == Init /\ [][NextServer]_vars

\* A closed connection wakes the task that waits on it: the pending send
\* (lines 57, 121) and the iteration of line 65 end, wait_closed (line
\* 177) returns.
Unblock(c) ==
    /\ ~open[c]
    /\ \/ \E email \in EmailOutcomes : StartResume(c, email)
       \/ ReplayResume(c)
       \/ PlayClosed(c)
       \/ WaitClosed(c)

\* The event loop runs every task that is ready to run.
FairSpec == Spec /\ \A c \in Conns : WF_vars(Unblock(c))

\* ================================================================ claims
Plays(evs) == SelectSeq(evs, LAMBDA e : e.type = "play")
Wins(evs) == SelectSeq(evs, LAMBDA e : e.type = "win")
Events(evs) == {evs[i] : i \in DOMAIN evs}
LastMove(g) == g.moves[Len(g.moves)]
\* The step accepts a move into the history of session s.
Accepted(s) == Len(game'[s].moves) = Len(game[s].moves) + 1
\* The connections that run start.
Hosts == {c \in Conns : fn[c] = "start"}

\* C1: a connection whose first message is an init with neither a join nor
\* a watch token gets a new session: a game, a Connection Set holding only
\* that connection, its two tokens, and the init event carrying them as
\* the first event it is sent.
C1_HostGetsSession ==
    \A c \in Conns :
        hmsg[c] = "init" =>
            /\ fn[c] = "start"
            /\ c \in connected[c]
            /\ join_key[c] # None /\ watch_key[c] # None
            /\ log[c] # <<>>
            /\ log[c][1] = InitEvent(join_key[c], watch_key[c])

\* C2: every accepted move of a session is sent as one play event, at the
\* moment it is accepted, to each open connection of the session's
\* Connection Set, so that such a connection receives the play events of N
\* accepted moves in the order of the history, whoever submitted them.
C2_PlayEventsInOrder ==
    [][\A s \in Conns : \A c \in connected[s] :
          (Accepted(s) /\ open[c]) =>
              /\ Plays(log'[c]) = Append(Plays(log[c]), PlayEvent(LastMove(game'[s])))
              /\ game'[s].moves = Append(game[s].moves, LastMove(game'[s]))]_vars

\* A session with three accepted moves, submitted by both players, whose
\* host, joiner and watcher have each been sent the three play events in
\* the order of the history.
C2_Witness ==
    \E s \in Hosts :
        /\ Len(game[s].moves) = 3
        /\ open[s] /\ Plays(log[s]) = PlayEvents(game[s].moves)
        /\ \E c \in connected[s] : \E d \in connected[s] :
              /\ fn[c] = "join" /\ fn[d] = "watch"
              /\ open[c] /\ open[d]
              /\ pc[c] = "play" /\ pc[d] = "wait_closed"
              /\ Plays(log[c]) = PlayEvents(game[s].moves)
              /\ Plays(log[d]) = PlayEvents(game[s].moves)

\* C3: when the engine rejects a move, the submitter alone is sent one
\* error event; no other event is sent to anyone, the game, the
\* Connection Sets and the registries are unchanged, and the submitter's
\* loop goes on reading.
C3_RejectedMove ==
    [][\A c \in Conns :
          (pc[c] = "play" /\ Len(log'[c]) > Len(log[c])
                          /\ log'[c][Len(log'[c])].type = "error") =>
              /\ \E column \in InColumns :
                    /\ MoveError(game[sess[c]], PlayerOf(c), column) # ""
                    /\ log'[c] = Append(log[c],
                          ErrorEvent(MoveError(game[sess[c]], PlayerOf(c), column)))
              /\ \A d \in Conns \ {c} : log'[d] = log[d]
              /\ game' = game /\ connected' = connected
              /\ JOIN' = JOIN /\ WATCH' = WATCH
              /\ pc' = pc /\ open' = open]_vars

\* A player that was sent an error for a rejected move and, still in its
\* loop, had a later move accepted.
C3_Witness ==
    \E c \in Conns : \E i \in DOMAIN log[c] : \E j \in DOMAIN log[c] :
        /\ pc[c] = "play" /\ open[c]
        /\ log[c][i].type = "error" /\ log[c][i] # GameNotFound
        /\ i < j
        /\ log[c][j].type = "play" /\ log[c][j].player = PlayerOf(c)

\* C4: once a move has produced a winner no later move is accepted, and
\* the win event is broadcast once: a connection is sent at most one win
\* event, directly after the play event of the winning move, and every
\* connection sent that play event by the broadcast is sent the win event.
C4_WinBroadcastOnce ==
    [][/\ \A s \in Conns : game[s].winner # None => game'[s] = game[s]
       /\ \A c \in Conns :
             /\ Len(Wins(log'[c])) <= 1
             /\ Wins(log'[c]) # Wins(log[c]) =>
                   \E s \in Conns :
                      /\ c \in connected[s]
                      /\ Accepted(s)
                      /\ game[s].winner = None /\ game'[s].winner # None
                      /\ log'[c] = log[c] \o <<PlayEvent(LastMove(game'[s])),
                                               WinEvent(game'[s].winner)>>
       /\ \A s \in Conns : \A c \in connected[s] :
             (Accepted(s) /\ game'[s].winner # None /\ open[c]) =>
                 log'[c] = log[c] \o <<PlayEvent(LastMove(game'[s])),
                                       WinEvent(game'[s].winner)>>]_vars

\* A won game whose win event reached two connections, and a player whose
\* later move was rejected because the game is over.
C4_Witness ==
    \E s \in Hosts :
        /\ game[s].winner # None
        /\ \E c \in Conns : \E d \in Conns \ {c} :
              /\ WinEvent(game[s].winner) \in Events(log[c])
              /\ WinEvent(game[s].winner) \in Events(log[d])
              /\ sess[c] = s /\ sess[d] = s
              /\ ErrorEvent("The game is over.") \in Events(log[c])

\* C5: once the host's task has ended, however it ended, neither of its
\* two tokens is in the registries, and a later join or watch with either
\* of them gets the not-found outcome.
C5_HostEndRevokesTokens ==
    [][/\ \A h \in Conns :
             (fn'[h] = "start" /\ pc'[h] = "done") =>
                 /\ JOIN'[join_key'[h]] = None
                 /\ WATCH'[watch_key'[h]] = None
       /\ \A h \in Hosts : \A c \in Conns :
             (/\ pc[h] = "done"
              /\ pc[c] = "accepted" /\ pc'[c] # "accepted"
              /\ \/ fn'[c] = "join" /\ join_key'[c] \in {join_key[h], watch_key[h]}
                 \/ fn'[c] = "watch" /\ watch_key'[c] \in {join_key[h], watch_key[h]}) =>
                 /\ pc'[c] = "done"
                 /\ sess'[c] = None
                 /\ connected' = connected
                 /\ open[c] => log'[c] = <<GameNotFound>>]_vars

\* A host that was sent its tokens and has ended, and two connections that
\* afterwards presented its join token and its watch token and were sent
\* the not-found error.
C5_Witness ==
    \E h \in Hosts : \E c \in Conns : \E d \in Conns \ {c} :
        /\ pc[h] = "done"
        /\ InitEvent(join_key[h], watch_key[h]) \in Events(log[h])
        /\ fn[c] = "join" /\ join_key[c] = join_key[h]
        /\ fn[d] = "watch" /\ watch_key[d] = watch_key[h]
        /\ log[c] = <<GameNotFound>> /\ log[d] = <<GameNotFound>>

\* C6 (the claim as it stands): while the replay to a connection still has
\* moves to send, the connection has been sent nothing but replayed moves,
\* so that the replay precedes every newly broadcast event.
C6_ReplayBeforeBroadcast ==
    \A c \in Conns :
        (pc[c] = "replay" /\ pos[c] < Len(snap[c])) =>
            Plays(log[c]) = SubSeq(snap[c], 1, pos[c])

\* The moves replay has sent to c so far, picked out of what c was sent.
Replayed(c) == SelectSeq(log[c], LAMBDA e : e \in Events(snap[c]))

\* C6 (amended): a connection that joins or watches a session whose
\* history holds k moves is sent those k moves by replay, in history order
\* and each once, the first of them before any broadcast event; when no
\* move is accepted while the replay runs, it has been sent the k moves,
\* each once and in order, and nothing else, when the replay ends.
C6_ReplayInHistoryOrder ==
    [][/\ \A c \in Conns :
             pc'[c] = "replay" =>
                 LET hist == PlayEvents(game'[sess'[c]].moves)
                     k == Len(snap'[c])
                 IN /\ 1 <= pos'[c] /\ pos'[c] <= k /\ k <= Len(hist)
                    /\ snap'[c] = SubSeq(hist, 1, k)
                    /\ Replayed(c)' = SubSeq(snap'[c], 1, pos'[c])
                    /\ log'[c][1] = snap'[c][1]
                    /\ Len(hist) = k => log'[c] = SubSeq(snap'[c], 1, pos'[c])
       /\ \A c \in Conns :
             (pc[c] = "replay" /\ pc'[c] \in {"play", "wait_closed"}) =>
                 /\ pos[c] = Len(snap[c])
                 /\ Len(game[sess[c]].moves) = Len(snap[c]) =>
                       log'[c] = PlayEvents(game[sess[c]].moves)]_vars

\* A watcher that registered on a history of two moves and has been sent
\* exactly those two moves, in order, while no move was accepted.
C6_Witness ==
    \E c \in Conns :
        /\ fn[c] = "watch" /\ pc[c] = "replay"
        /\ Len(snap[c]) = 2 /\ pos[c] = 2
        /\ Len(game[sess[c]].moves) = 2
        /\ log[c] = PlayEvents(game[sess[c]].moves)

\* C7: a join or a watch with a token that is not in its registry sends
\* "Game not found." to that connection only, adds the connection to no
\* Connection Set, and changes no registry, game or set.
C7_UnknownToken ==
    [][/\ \A c \in Conns :
             (/\ pc[c] = "accepted" /\ pc'[c] # "accepted"
              /\ \/ fn'[c] = "join" /\ JOIN[join_key'[c]] = None
                 \/ fn'[c] = "watch" /\ WATCH[watch_key'[c]] = None) =>
                 /\ log' = IF open[c] THEN Send(log, c, GameNotFound) ELSE log
                 /\ pc'[c] = "done" /\ sess'[c] = None
                 /\ JOIN' = JOIN /\ WATCH' = WATCH
                 /\ game' = game /\ connected' = connected
       /\ \A c \in Conns :
             GameNotFound \in Events(log'[c]) =>
                 \A s \in Conns : c \notin connected'[s]]_vars

\* With a session alive, one connection presented to join a token that
\* was never issued, and another presented to join the session's watch
\* token; both were sent the error and neither is in the set.
C7_Witness ==
    \E h \in Hosts : \E c \in Conns : \E d \in Conns \ {c} :
        /\ pc[h] = "play" /\ JOIN[join_key[h]] = h /\ WATCH[watch_key[h]] = h
        /\ fn[c] = "join" /\ join_key[c] = Bogus /\ log[c] = <<GameNotFound>>
        /\ fn[d] = "join" /\ join_key[d] = watch_key[h] /\ log[d] = <<GameNotFound>>
        /\ connected[h] = {h}

\* C8: whether send_email returns or raises, the host whose init event
\* was sent goes on to its dispatch loop, its tokens stay registered and
\* no connection is removed.
C8_EmailFailureSwallowed ==
    [][\A c \in Conns :
          (open[c] /\ \E email \in EmailOutcomes : StartResume(c, email)) =>
              /\ pc'[c] = "play"
              /\ JOIN' = JOIN /\ WATCH' = WATCH
              /\ connected' = connected]_vars

\* C9: after the host's task has ended, no move is accepted into the
\* session's history and no connection registered to the session is sent
\* a further play or win event.
C9_SessionDestroyedWithHost ==
    [][\A h \in Hosts :
          pc[h] = "done" =>
              /\ game'[h] = game[h]
              /\ \A c \in Conns :
                    sess[c] = h =>
                        /\ Plays(log'[c]) = Plays(log[c])
                        /\ Wins(log'[c]) = Wins(log[c])]_vars

\* C10: when the task of a joiner or of a watcher ends, that connection
\* alone leaves its Connection Set: the registries, the games, and the
\* other connections' tasks, sets and events are unchanged.
C10_MemberEndRemovesOnlyItself ==
    [][\A c \in Conns :
          (/\ fn'[c] \in {"join", "watch"} /\ sess'[c] # None
           /\ pc[c] # "done" /\ pc'[c] = "done") =>
              /\ connected' = [connected EXCEPT ![sess'[c]] = @ \ {c}]
              /\ JOIN' = JOIN /\ WATCH' = WATCH
              /\ game' = game
              /\ \A d \in Conns \ {c} :
                    /\ pc'[d] = pc[d] /\ open'[d] = open[d]
                    /\ log'[d] = log[d]]_vars

\* A joiner has ended and is out of the set; the session's tokens still
\* resolve to it, the host and a watcher are still registered, and they
\* have been sent a move that the ended joiner was not.
C10_Witness ==
    \E h \in Hosts : \E c \in Conns : \E d \in Conns :
        /\ fn[c] = "join" /\ sess[c] = h /\ pc[c] = "done"
        /\ fn[d] = "watch" /\ sess[d] = h /\ pc[d] = "wait_closed" /\ open[d]
        /\ pc[h] = "play" /\ open[h]
        /\ JOIN[join_key[h]] = h /\ WATCH[watch_key[h]] = h
        /\ connected[h] = {h, d}
        /\ Len(Plays(log[d])) > Len(Plays(log[c]))
        /\ Len(Plays(log[c])) >= 1

\* C11: no Connection Set holds a connection whose task has ended: host,
\* joiner and watcher alike are removed from the set when their handling
\* ends, however it ends.
C11_NoEndedConnectionInSet ==
    \A s \in Conns : \A c \in connected[s] : pc[c] # "done"

\* The events of the broadcast of the move a step accepts into session s.
MoveEvents(s) ==
    <<PlayEvent(LastMove(game'[s]))>>
        \o (IF game'[s].winner # None THEN <<WinEvent(game'[s].winner)>> ELSE <<>>)

\* C12: with several sessions alive, a connection is in the Connection Set
\* of the one session it created or whose token it presented, and it is
\* sent a play or win event only by a broadcast of that session made while
\* it is in the session's set, or by the replay of that session's history.
C12_SessionIsolation ==
    [][/\ \A s \in Conns : \A c \in connected'[s] : sess'[c] = s
       /\ \A c \in Conns :
             sess'[c] # None =>
                 /\ fn'[sess'[c]] = "start"
                 /\ fn'[c] = "start" => sess'[c] = c
                 /\ fn'[c] = "join" => join_key'[c] = join_key'[sess'[c]]
                 /\ fn'[c] = "watch" => watch_key'[c] = watch_key'[sess'[c]]
       /\ \A c \in Conns :
             (Plays(log'[c]) # Plays(log[c]) \/ Wins(log'[c]) # Wins(log[c])) =>
                 LET s == sess'[c]
                 IN /\ s # None
                    /\ \/ /\ Accepted(s)
                          /\ c \in connected[s]
                          /\ log'[c] = log[c] \o MoveEvents(s)
                       \/ /\ pc'[c] = "replay"
                          /\ game' = game
                          /\ snap'[c] = SubSeq(PlayEvents(game[s].moves), 1, Len(snap'[c]))
                          /\ log'[c] = Append(log[c], snap'[c][pos'[c]])
       /\ \A s \in Conns :
             Accepted(s) => \A c \in Conns \ connected[s] : log'[c] = log[c]]_vars

\* Two sessions alive at once with different histories; a joiner of the
\* one has been sent that session's moves and nothing else.
C12_Witness ==
    \E g \in Hosts : \E h \in Hosts \ {g} : \E c \in Conns :
        /\ pc[g] = "play" /\ pc[h] = "play" /\ open[g] /\ open[h]
        /\ game[g].moves # <<>> /\ game[h].moves # <<>>
        /\ game[g].moves # game[h].moves
        /\ fn[c] = "join" /\ sess[c] = g /\ pc[c] = "play" /\ open[c]
        /\ Len(game[g].moves) = 2
        /\ log[c] = PlayEvents(game[g].moves)
        /\ Plays(log[h]) = PlayEvents(game[h].moves)

\* The moves of its copy that the replay to c has still to send.
Pending(c) ==
    IF pc[c] = "replay" THEN {snap[c][j] : j \in (pos[c] + 1)..Len(snap[c])} ELSE {}

\* C13: a joiner or watcher whose connection is open has been sent every
\* move of its session's history, or the replay to it has the move still
\* to send, whether or not moves were accepted while the replay ran: once
\* the replay is over it has been sent every move at least once.
C13_NoMoveMissed ==
    \A c \in Conns :
        (fn[c] \in {"join", "watch"} /\ sess[c] # None /\ open[c]) =>
            \A e \in Events(PlayEvents(game[sess[c]].moves)) :
                e \in Events(log[c]) \cup Pending(c)

\* A watcher whose replay of two moves was overtaken by the broadcast of a
\* third: its replay is over and it has been sent the three moves, the
\* third before the second.
C13_Witness ==
    \E c \in Conns :
        /\ fn[c] = "watch" /\ pc[c] = "wait_closed" /\ open[c]
        /\ Len(game[sess[c]].moves) = 3
        /\ LET hist == PlayEvents(game[sess[c]].moves)
           IN Plays(log[c]) = <<hist[1], hist[3], hist[2]>>

\* C14: no connection is sent the play event of a move twice, and a move
\* the replay to a connection has still to send has not been sent to it
\* by a broadcast: a move of the copy was accepted before the connection
\* was in the set, and a move broadcast to it is not in the copy.
C14_NoMoveTwice ==
    \A c \in Conns :
        /\ \A i \in DOMAIN log[c] : \A j \in DOMAIN log[c] :
              (log[c][i].type = "play" /\ log[c][j] = log[c][i]) => i = j
        /\ Pending(c) \cap Events(log[c]) = {}
        /\ pc[c] = "replay" =>
              \A i \in DOMAIN log[c] :
                  (log[c][i].type = "play" /\ log[c][i] \in Events(snap[c])) =>
                      \E j \in 1..pos[c] : snap[c][j] = log[c][i]

\* A joiner whose replay of two moves was overtaken by the broadcast of a
\* third: in its dispatch loop, it has been sent three play events, all
\* different, the third move before the second.
C14_Witness ==
    \E c \in Conns :
        /\ fn[c] = "join" /\ pc[c] = "play" /\ open[c]
        /\ Len(Plays(log[c])) = 3
        /\ Len(game[sess[c]].moves) = 3
        /\ Plays(log[c])[2] = PlayEvent(game[sess[c]].moves[3])
        /\ Plays(log[c])[3] = PlayEvent(game[sess[c]].moves[2])

\* C15: the step that appends a move to a session's history also makes
\* the move's broadcasts: it appends that one move and no other, to no
\* other game; every open connection of the set is sent the play event
\* (and the win event when the move wins) in that step and nobody else is
\* sent anything; no connection is added to or removed from a set, no
\* replay copies or sends, no task starts or ends.  So in no state has a
\* host still in its loop been sent less than its session's history.
C15_AcceptAndBroadcastAtomic ==
    /\ [][\A s \in Conns :
             Accepted(s) =>
                 /\ game'[s].moves = Append(game[s].moves, LastMove(game'[s]))
                 /\ \A t \in Conns \ {s} : game'[t] = game[t]
                 /\ connected' = connected
                 /\ snap' = snap /\ pos' = pos
                 /\ pc' = pc /\ open' = open
                 /\ \A c \in Conns :
                       log'[c] = IF c \in connected[s] /\ open[c]
                                 THEN log[c] \o MoveEvents(s) ELSE log[c]]_vars
    /\ [](\A h \in Hosts :
             (pc[h] = "play" /\ open[h]) =>
                 /\ Plays(log[h]) = PlayEvents(game[h].moves)
                 /\ Wins(log[h]) = IF game[h].winner # None
                                   THEN <<WinEvent(game[h].winner)>> ELSE <<>>)

\* The host and a joiner that was in the set from the first move on are
\* both in their loops; one move of each has been accepted, and both
\* have been sent the two moves in the order of the history.
C15_Witness ==
    \E h \in Hosts : \E c \in connected[h] :
        /\ fn[c] = "join" /\ pc[c] = "play" /\ pc[h] = "play"
        /\ open[c] /\ open[h]
        /\ Len(game[h].moves) = 2
        /\ game[h].moves[1][1] = PLAYER1 /\ game[h].moves[2][1] = PLAYER2
        /\ log[c] = PlayEvents(game[h].moves)
        /\ Plays(log[h]) = log[c]

\* C16: in every state another task can run in, the join token and the
\* watch token of a host are both registered or both absent; they are
\* registered exactly while the host's task runs, they are two different
\* tokens, both resolve to the host's own game and set, and the
\* registries hold nothing else.
C16_TokensTogether ==
    /\ \A h \in Hosts :
          /\ join_key[h] # watch_key[h]
          /\ JOIN[join_key[h]] \in {None, h}
          /\ WATCH[watch_key[h]] \in {None, h}
          /\ (JOIN[join_key[h]] = h) <=> (WATCH[watch_key[h]] = h)
          /\ (JOIN[join_key[h]] = h) <=> (pc[h] \in {"start_send", "play"})
    /\ \A t \in Tokens :
          /\ JOIN[t] # None => (JOIN[t] \in Hosts /\ join_key[JOIN[t]] = t)
          /\ WATCH[t] # None => (WATCH[t] \in Hosts /\ watch_key[WATCH[t]] = t)

\* One host has ended, and neither of the tokens it was sent resolves;
\* another is in its loop, both its tokens resolve to its session, and a
\* watcher has entered the session through one of them.
C16_Witness ==
    \E g \in Hosts : \E h \in Hosts \ {g} : \E c \in Conns :
        /\ pc[g] = "done"
        /\ InitEvent(join_key[g], watch_key[g]) \in Events(log[g])
        /\ JOIN[join_key[g]] = None /\ WATCH[watch_key[g]] = None
        /\ pc[h] = "play"
        /\ JOIN[join_key[h]] = h /\ WATCH[watch_key[h]] = h
        /\ fn[c] = "watch" /\ sess[c] = h /\ c \in connected[h]

\* The token a connection presented to join or to watch.
Presented(c) == IF fn[c] = "join" THEN join_key[c] ELSE watch_key[c]
\* The token of host h that admits to the role of connection c.
TokenFor(h, c) == IF fn[c] = "join" THEN join_key[h] ELSE watch_key[h]

\* C17: a connection that presents the join or the watch token of a host
\* whose task still waits in the send of the init event, or has not yet
\* run send_email, is put into the host's set and goes on to its loop or
\* to its wait; a connection stays in the set until its own task ends;
\* and every move accepted afterwards, the host's first included, is sent
\* to every open connection of the set.
C17_JoinBeforeHostLoop ==
    [][/\ \A c \in Conns : \A h \in Hosts :
             (/\ pc[c] = "accepted" /\ pc'[c] # "accepted"
              /\ fn'[c] \in {"join", "watch"}
              /\ pc[h] = "start_send"
              /\ Presented(c)' = TokenFor(h, c)') =>
                 /\ game[h].moves = <<>>
                 /\ sess'[c] = h
                 /\ connected' = [connected EXCEPT ![h] = @ \cup {c}]
                 /\ pc'[c] = AfterReplay(fn'[c])
       /\ \A h \in Hosts : \A c \in connected[h] :
             c \in connected'[h] \/ (c # h /\ pc[c] # "done" /\ pc'[c] = "done")
       /\ \A h \in Hosts :
             (Accepted(h) /\ game[h].moves = <<>>) =>
                 /\ LastMove(game'[h])[1] = PLAYER1
                 /\ \A c \in connected[h] :
                       open[c] => log'[c] = Append(log[c], PlayEvent(LastMove(game'[h])))]_vars

\* The host still waits in the send of its init event, and a joiner and a
\* watcher that presented its tokens are already in its set, in the loop
\* and in the wait.
C17_Witness ==
    \E h \in Hosts : \E c \in connected[h] : \E d \in connected[h] :
        /\ pc[h] = "start_send" /\ open[h]
        /\ fn[c] = "join" /\ pc[c] = "play" /\ open[c]
        /\ fn[d] = "watch" /\ pc[d] = "wait_closed" /\ open[d]
        /\ join_key[c] = join_key[h] /\ watch_key[d] = watch_key[h]
        /\ log[c] = <<>> /\ log[d] = <<>>

\* C18: a join with a token that resolves leaves both registries as they
\* are; the connection gets the session the token resolves to, is put
\* into its set and goes on, through replay, to the dispatch loop as
\* player 2, whether or not another connection joined with the token
\* before; and the token resolves to the host's session in every state
\* in which the host's task runs.
C18_JoinTokenNotConsumed ==
    /\ [][\A c \in Conns :
             (/\ pc[c] = "accepted" /\ pc'[c] # "accepted"
              /\ fn'[c] = "join" /\ JOIN[join_key'[c]] # None) =>
                 LET h == JOIN[join_key'[c]]
                 IN /\ JOIN' = JOIN /\ WATCH' = WATCH
                    /\ sess'[c] = h
                    /\ PlayerOf(c)' = PLAYER2
                    /\ (open[c] \/ game[h].moves = <<>>) =>
                          /\ connected' = [connected EXCEPT ![h] = @ \cup {c}]
                          /\ pc'[c] = IF game[h].moves = <<>> THEN "play" ELSE "replay"]_vars
    /\ [](\A h \in Hosts :
             pc[h] \in {"start_send", "play"} => JOIN[join_key[h]] = h)

\* Two connections have joined with the same join token; both are in the
\* host's set and in the dispatch loop, and a move of player 2 has been
\* accepted and sent to both.
C18_Witness ==
    \E h \in Hosts : \E c \in connected[h] : \E d \in connected[h] \ {c} :
        /\ pc[h] = "play"
        /\ fn[c] = "join" /\ fn[d] = "join"
        /\ join_key[c] = join_key[h] /\ join_key[d] = join_key[h]
        /\ pc[c] = "play" /\ pc[d] = "play" /\ open[c] /\ open[d]
        /\ Len(game[h].moves) = 2
        /\ PlayEvent(game[h].moves[2]) \in Events(log[c]) \cap Events(log[d])

\* C19: when a move is accepted while a connection of the set is closed,
\* the broadcast reaches every open connection of the set, and the
\* connection it could not reach is taken out of the set.
C19_FailedRecipientRemoved ==
    [][\A s \in Conns :
          Accepted(s) =>
              \A c \in connected[s] :
                  /\ open[c] => log'[c] = log[c] \o MoveEvents(s)
                  /\ ~open[c] => c \notin connected'[s]]_vars

\* What the finally clause of the task of c leaves behind.
CleanedUp(c) ==
    /\ pc[c] = "done"
    /\ fn[c] = "start" => (JOIN[join_key[c]] = None /\ WATCH[watch_key[c]] = None)
    /\ (fn[c] \in {"join", "watch"} /\ sess[c] # None) => c \notin connected[sess[c]]

\* C20: when the event loop runs every ready task, a task whose
\* connection is closed ends and its finally clause has run: a closed
\* joiner or watcher is then out of its set and a closed host's tokens
\* are out of the registries.  A watcher never reads a message: it is
\* never in the dispatch loop, and every move accepted into a history is
\* the move of a host or of a joiner that is in its loop.
C20_ClosedConnectionCleansUp ==
    /\ \A c \in Conns : (pc[c] \in Suspended /\ ~open[c]) ~> CleanedUp(c)
    /\ [](\A c \in Conns : fn[c] = "watch" => pc[c] # "play")
    /\ [][\A s \in Conns :
             Accepted(s) =>
                 \E c \in Conns :
                     /\ fn[c] \in {"start", "join"} /\ sess[c] = s
                     /\ pc[c] = "play" /\ open[c]
                     /\ LastMove(game'[s])[1] = PlayerOf(c)]_vars

\* A watcher that was sent two moves has ended and is out of the set; the
\* host's connection is closed and its task has ended, its tokens out of
\* the registries; a joiner, closed too, still waits to be run.
C20_Witness ==
    \E h \in Hosts : \E c \in Conns : \E d \in Conns :
        /\ fn[d] = "watch" /\ sess[d] = h /\ pc[d] = "done"
        /\ Len(Plays(log[d])) = 2 /\ d \notin connected[h]
        /\ pc[h] = "done"
        /\ JOIN[join_key[h]] = None /\ WATCH[watch_key[h]] = None
        /\ fn[c] = "join" /\ sess[c] = h /\ pc[c] = "play" /\ ~open[c]
        /\ c \in connected[h]

====
